---- MODULE Spec2Model ----
(***************************************************************************)
(* WealthCommander (mcmugane): the Node/Express server's TMF Test strategy *)
(* timers, the buy/sell wizard keyed by client id, the WebSocket broadcast *)
(* fan-out, the AuthService lock-out and the account access filter.        *)
(***************************************************************************)
EXTENDS Integers, Sequences, FiniteSets, Bags, TLC

(***************************************************************************)
(* Bounds of the model (not program constants).                            *)
(***************************************************************************)
MaxStarts == 2
MaxStops == 1
MaxSockets == 3
MaxClock == 2
MaxBroadcasts == 2
MaxQtyLen == 3
MaxClients == 2
MaxNow == 20
MaxOrders == 2
MaxIntervalLen == 3
MaxSends == 11
MaxAuthCalls == 5
MaxInFlight == 2
MaxClientSockets == 3
MaxSubmits == 2

(***************************************************************************)
(* Program constants.                                                      *)
(***************************************************************************)
maxRounds == 5
tmfQuantity == 5
buyingPowerCents == 3084066
maxLoginAttempts == 5
\* lockoutDuration = 15 * 60 * 1000 ms, in minutes
lockoutDuration == 15
\* the length historyBuf is cut to: main.js of the first layout, static/main.js
historyLimit == 10
historyLimitMain == 20
maxReconnectAttempts == 5
\* the minutes between two readings of the clock
TickMinutes == 5

VARIABLES
    \* --- POST /api/strategy/start|stop for 'TMF Test' (routes.ts) ---
    strategyStatus,   \* strategyStatus.get('TMF Test'): None or Some(record)
    activeTimeouts,   \* activeTimeouts.get('TMF Test'): None or Some(handles pushed)
    pendingTimers,    \* the setTimeout handles that have neither fired nor been cleared
    currentRound,     \* the closure variable currentRound of each start request
    startAwait,       \* start requests suspended in await logger.logStrategyExecution
    numStarts,        \* start requests received
    numStops,         \* stop requests received
    stopHandled,      \* a stop was handled and no start request has arrived since
    \* --- storage.ts ---
    orders,           \* MemStorage.orders, as the bag of its order records
    \* --- broadcast (routes.ts) ---
    broadcasts,       \* the bag of the message types passed to broadcast()
    wsSent,           \* per socket, the broadcast frames ws.send() was called with
    \* --- wss.on('connection') (routes.ts) ---
    wsClients,        \* the Map wsClients: client id -> socket
    readyState,       \* ws.readyState of every socket accepted so far
    wsClientId,       \* the clientId constant captured by each socket's handlers
    clockMs,          \* Date.now()
    numSockets,       \* connections accepted so far
    \* --- parseQuantity (interactive-commands.ts) ---
    qInput,           \* the quantity argument of a buy, as typed
    qSymbol,          \* the ticker of that buy
    qDone,            \* the quantity has been computed
    qResult,          \* the share count the buy is prompted with
    \* --- the buy/sell wizard (interactive-commands.ts) ---
    clientStates,     \* the Map clientStates: client id -> None or Some(state)
    screen,           \* per client id, the last reply sent to it
    lastClient,       \* the clientId of the command processed last
    \* --- AuthService (logger.ts) and the session routes (routes.ts) ---
    now,              \* the time, in minutes
    users,            \* data/users.json: username -> user record
    authResult,       \* what the last authenticateUser call returned
    wrongStreak,      \* per user, the wrong passwords given in a row since a login
    session,          \* req.session.userId of the browser: None or Some(id)
    accountsResponse, \* the last answer of GET /api/accounts
    authCalls,        \* the authenticateUser calls in flight, as a bag of their frames
    numAuthCalls,     \* authenticateUser calls begun
    wrongCount,       \* per user, the wrong-password answers since the last login
    \* --- the Apply button of the auto-trading panel (static/app.js, js/app.js) ---
    aInterval,        \* interval-input.value, as typed
    aStrategy,        \* strategy-select.value ("" when none is selected)
    aEnabled,         \* auto-toggle.checked
    aDone,            \* the click has been handled
    aOutcome,         \* what the click handler did: an alert or the request sent
    \* --- the terminal's command history (main.js, static/main.js) ---
    hVariant,         \* which main.js the page runs
    historyBuf,       \* historyBuf
    histIdx,          \* histIdx
    hSent,            \* the commands ws.send() was called with, in order
    \* --- the React client: WebSocketClient, WebSocketProvider, terminal ---
    clientSockets,    \* readyState of every WebSocket the client has created
    clientWs,         \* WebSocketClient.ws: None or Some(index of a socket)
    reconnectAttempts, \* WebSocketClient.reconnectAttempts
    reconnectTimers,  \* the setTimeout calls of attemptReconnect still pending
    mounted,          \* the provider: "no", "yes", or "unmounted"
    providerWs,       \* the provider's state ws is set
    isConnected,      \* the provider's state isConnected
    numSubmitted,     \* non-empty commands submitted in the terminal
    sentOverWs,       \* terminal_command frames sent on an OPEN socket
    sentOverHttp      \* POST /api/terminal requests made

wsConnVars == <<wsClients, readyState, wsClientId, clockMs, numSockets>>
tmfVars == <<strategyStatus, activeTimeouts, pendingTimers, currentRound,
             startAwait, numStarts, numStops, stopHandled>>
vars == <<strategyStatus, activeTimeouts, pendingTimers, currentRound,
          startAwait, numStarts, numStops, stopHandled, orders, broadcasts,
          wsSent, wsClients, readyState, wsClientId, clockMs, numSockets,
          qInput, qSymbol, qDone, qResult, clientStates, screen, lastClient,
          now, users, authResult, wrongStreak, session, accountsResponse,
          authCalls, numAuthCalls, wrongCount,
          aInterval, aStrategy, aEnabled, aDone, aOutcome,
          hVariant, historyBuf, histIdx, hSent,
          clientSockets, clientWs, reconnectAttempts, reconnectTimers, mounted,
          providerWs, isConnected, numSubmitted, sentOverWs, sentOverHttp>>

\* what the actions of one part of the server leave alone
qtyVars == <<qInput, qSymbol, qDone, qResult>>
wizVars == <<clientStates, screen, lastClient>>
authVars == <<now, users, authResult, wrongStreak, session, accountsResponse,
             authCalls, numAuthCalls, wrongCount>>
applyVars == <<aInterval, aStrategy, aEnabled, aDone, aOutcome>>
\* the state of the browser pages
histVars == <<hVariant, historyBuf, histIdx, hSent>>
reactVars == <<clientSockets, clientWs, reconnectAttempts, reconnectTimers,
               mounted, providerWs, isConnected, numSubmitted, sentOverWs,
               sentOverHttp>>
pageVars == <<applyVars, histVars, reactVars>>
\* the state of the server
serverVars == <<tmfVars, orders, broadcasts, wsSent, wsConnVars, qtyVars, wizVars,
                authVars>>
tmfFrame == <<wsConnVars, qtyVars, wizVars, authVars, pageVars>>
wsFrame == <<tmfVars, orders, qtyVars, wizVars, authVars, pageVars>>
qtyFrame == <<tmfVars, orders, broadcasts, wsSent, wsConnVars, wizVars, authVars,
              pageVars>>
wizFrame == <<tmfVars, wsConnVars, qtyVars, authVars, pageVars>>
authFrame == <<tmfVars, wsConnVars, qtyVars, wizVars, pageVars>>
applyFrame == <<serverVars, histVars, reactVars>>
histFrame == <<serverVars, applyVars, reactVars>>
reactFrame == <<serverVars, applyVars, histVars>>

\* A Map entry that may be absent: <<>> when absent, <<v>> when present
None == <<>>
Some(v) == <<v>>
Runs == 1..MaxStarts

Range(f) == {f[x] : x \in DOMAIN f}

(***************************************************************************)
(* storage.createOrder: one more order record in the store.                *)
(***************************************************************************)
\* qty is a JavaScript number: <<n>>, or <<>> for NaN
Order(accountId, symbol, side, qty) ==
    [accountId |-> accountId, symbol |-> symbol, side |-> side, quantity |-> qty]

createOrder(store, order) == store (+) SetToBag({order})

TmfOrder(side) == Order("demo-account-1", "TMF", side, <<tmfQuantity>>)

TmfCount(side) == CopiesIn(TmfOrder(side), orders)

(***************************************************************************)
(* broadcast(message), here for a sequence of messages sent in one step.   *)
(***************************************************************************)
BagOfSeq(msgs) ==
    [t \in Range(msgs) |-> Cardinality({i \in DOMAIN msgs : msgs[i] = t})]

\* the sockets wsClients.forEach visits whose readyState is WebSocket.OPEN
OpenClients == {s \in Range(wsClients) : readyState[s] = "OPEN"}

broadcast(msgs) ==
    /\ broadcasts' = broadcasts (+) BagOfSeq(msgs)
    /\ wsSent' = [s \in DOMAIN wsSent |->
                    IF s \in OpenClients THEN wsSent[s] + Len(msgs) ELSE wsSent[s]]

noBroadcast == UNCHANGED <<broadcasts, wsSent>>

(***************************************************************************)
(* The TMF Test strategy.                                                  *)
(***************************************************************************)
Handle(r, kind, round) == [run |-> r, kind |-> kind, round |-> round]

Status(running, completed) ==
    Some([isRunning |-> running, completedRounds |-> completed,
          totalRounds |-> maxRounds])

IsRunning == strategyStatus # None /\ strategyStatus[1].isRunning

\* POST /api/strategy/start, up to its await of logger.logStrategyExecution
StartRequest ==
    /\ numStarts < MaxStarts
    /\ numStarts' = numStarts + 1
    /\ activeTimeouts' = Some({})
    /\ strategyStatus' = Status(TRUE, 0)
    /\ startAwait' = startAwait \cup {numStarts + 1}
    /\ stopHandled' = FALSE
    /\ noBroadcast
    /\ UNCHANGED <<pendingTimers, currentRound, numStops, orders>>
    /\ UNCHANGED tmfFrame

\* the condition of the sell callback that schedules the next round
MoreRounds(r) == currentRound[r] < maxRounds

\* currentRound++ of executeRound
NextRoundNoIncrement(r) == currentRound[r]

NextRound(r) == currentRound[r] + 1

\* executeRound of start request r; timers are the handles pending when it
\* is entered, more the messages its caller broadcasts in the same task
executeRound(r, timers, more) ==
    IF currentRound[r] >= maxRounds
    THEN /\ broadcast(<<"strategy_completed">> \o more)
         /\ pendingTimers' = timers
         /\ UNCHANGED <<strategyStatus, activeTimeouts, currentRound, orders>>
    ELSE LET round == NextRound(r)
             sellTimeout == Handle(r, "sell", round)
         IN  /\ currentRound' = [currentRound EXCEPT ![r] = round]
             /\ strategyStatus' = Status(TRUE, round - 1)
             /\ orders' = createOrder(orders, TmfOrder("buy"))
             /\ pendingTimers' = timers \cup {sellTimeout}
             \* activeTimeouts.get(strategyName)!.push throws when the entry
             \* was deleted; the catch block only reports it
             /\ IF activeTimeouts = None
                THEN /\ activeTimeouts' = None
                     /\ broadcast(<<"terminal_output", "order_update",
                                    "terminal_output", "terminal_output",
                                    "terminal_output">> \o more)
                ELSE /\ activeTimeouts' = Some(activeTimeouts[1] \cup {sellTimeout})
                     /\ broadcast(<<"terminal_output", "order_update",
                                    "terminal_output", "terminal_output">> \o more)

\* POST /api/strategy/start after the await: the first executeRound()
StartResume(r) ==
    /\ r \in startAwait
    /\ startAwait' = startAwait \ {r}
    /\ executeRound(r, pendingTimers, <<"strategy_executed">>)
    /\ UNCHANGED <<numStarts, numStops, stopHandled>>
    /\ UNCHANGED tmfFrame

\* the setTimeout(..., 10000) callback of executeRound
SellTimeoutFires(h) ==
    /\ h \in pendingTimers
    /\ h.kind = "sell"
    /\ IF ~IsRunning
       THEN /\ pendingTimers' = pendingTimers \ {h}
            /\ noBroadcast
            /\ UNCHANGED <<strategyStatus, activeTimeouts, orders>>
       ELSE /\ orders' = createOrder(orders, TmfOrder("sell"))
            /\ IF MoreRounds(h.run)
               THEN LET nextRoundTimeout == Handle(h.run, "next", h.round)
                    IN  /\ pendingTimers' =
                              (pendingTimers \ {h}) \cup {nextRoundTimeout}
                        /\ activeTimeouts' =
                              Some((IF activeTimeouts = None THEN {}
                                    ELSE activeTimeouts[1]) \cup {nextRoundTimeout})
                        /\ broadcast(<<"order_update", "terminal_output",
                                       "terminal_output">>)
                        /\ UNCHANGED strategyStatus
               ELSE /\ pendingTimers' = pendingTimers \ {h}
                    /\ strategyStatus' = Status(FALSE, maxRounds)
                    /\ broadcast(<<"order_update", "terminal_output",
                                   "strategy_completed", "strategy_status_update">>)
                    /\ UNCHANGED activeTimeouts
    /\ UNCHANGED <<currentRound, startAwait, numStarts, numStops, stopHandled>>
    /\ UNCHANGED tmfFrame

\* the setTimeout(executeRound, 2000) callback
NextRoundTimeoutFires(h) ==
    /\ h \in pendingTimers
    /\ h.kind = "next"
    /\ executeRound(h.run, pendingTimers \ {h}, <<>>)
    /\ UNCHANGED <<startAwait, numStarts, numStops, stopHandled>>
    /\ UNCHANGED tmfFrame

\* POST /api/strategy/stop
StopRequest ==
    /\ numStops < MaxStops
    /\ numStops' = numStops + 1
    /\ pendingTimers' =
          IF activeTimeouts = None THEN pendingTimers
          ELSE pendingTimers \ activeTimeouts[1]
    /\ activeTimeouts' = None
    /\ strategyStatus' =
          IF strategyStatus = None THEN None
          ELSE Some([strategyStatus[1] EXCEPT !.isRunning = FALSE])
    /\ broadcast(<<"strategy_stopped", "strategy_status_update">>)
    /\ stopHandled' = TRUE
    /\ UNCHANGED <<currentRound, startAwait, numStarts, orders>>
    /\ UNCHANGED tmfFrame

(***************************************************************************)
(* The WebSocket server: connections, closes and the periodic broadcast.   *)
(***************************************************************************)
\* time passes: Date.now() advances by a millisecond
Tick ==
    /\ clockMs < MaxClock
    /\ clockMs' = clockMs + 1
    /\ noBroadcast
    /\ UNCHANGED <<wsClients, readyState, wsClientId, numSockets>>
    /\ UNCHANGED wsFrame

\* wss.on('connection'): clientId = Date.now().toString(); wsClients.set
Connect ==
    /\ numSockets < MaxSockets
    /\ LET ws == numSockets + 1
           clientId == clockMs
       IN  /\ numSockets' = ws
           /\ wsClients' = [c \in DOMAIN wsClients \cup {clientId} |->
                              IF c = clientId THEN ws ELSE wsClients[c]]
           /\ readyState' = Append(readyState, "OPEN")
           /\ wsClientId' = Append(wsClientId, clientId)
           /\ wsSent' = Append(wsSent, 0)
    /\ UNCHANGED <<broadcasts, clockMs>>
    /\ UNCHANGED wsFrame

\* a close handshake starts: the socket is CLOSING until its 'close' event
BeginClose(ws) ==
    /\ ws \in 1..numSockets
    /\ readyState[ws] = "OPEN"
    /\ readyState' = [readyState EXCEPT ![ws] = "CLOSING"]
    /\ noBroadcast
    /\ UNCHANGED <<wsClients, wsClientId, clockMs, numSockets>>
    /\ UNCHANGED wsFrame

\* wsClients.delete(clientId)
DeleteClient(clients, clientId) ==
    [c \in DOMAIN clients \ {clientId} |-> clients[c]]

\* ws.on('close'): the socket is CLOSED and its handler deletes its clientId
CloseEvent(ws) ==
    /\ ws \in 1..numSockets
    /\ readyState[ws] # "CLOSED"
    /\ readyState' = [readyState EXCEPT ![ws] = "CLOSED"]
    /\ wsClients' = DeleteClient(wsClients, wsClientId[ws])
    /\ noBroadcast
    /\ UNCHANGED <<wsClientId, clockMs, numSockets>>
    /\ UNCHANGED wsFrame

\* startMarketDataUpdates: the setInterval callback broadcasts market_update
MarketUpdate ==
    /\ CopiesIn("market_update", broadcasts) < MaxBroadcasts
    /\ broadcast(<<"market_update">>)
    /\ UNCHANGED wsConnVars
    /\ UNCHANGED wsFrame

(***************************************************************************)
(* JavaScript strings and numbers, as far as the command parser uses them. *)
(* A string is a sequence of atoms: the characters "$", "%", ".", " ", the *)
(* digits, and whole names ("buy", "AAPL").  A number is Num(n), or NaN.   *)
(***************************************************************************)
NaN == <<>>
Num(n) == <<n>>
Digits == {"0", "1", "2", "3", "4", "5", "6", "7", "8", "9"}
DigitVal == "0" :> 0 @@ "1" :> 1 @@ "2" :> 2 @@ "3" :> 3 @@ "4" :> 4 @@
            "5" :> 5 @@ "6" :> 6 @@ "7" :> 7 @@ "8" :> 8 @@ "9" :> 9

startsWith(str, ch) == Len(str) > 0 /\ str[1] = ch
endsWith(str, ch) == Len(str) > 0 /\ str[Len(str)] = ch

\* the length of the longest prefix of str made of digits
RECURSIVE DigitPrefix(_)
DigitPrefix(str) ==
    IF Len(str) = 0 \/ str[1] \notin Digits THEN 0
    ELSE 1 + DigitPrefix(Tail(str))

RECURSIVE DecimalValue(_)
DecimalValue(ds) ==
    IF Len(ds) = 0 THEN 0
    ELSE 10 * DecimalValue(SubSeq(ds, 1, Len(ds) - 1)) + DigitVal[ds[Len(ds)]]

\* parseFloat on strings without sign, point or exponent
parseFloat(str) ==
    LET k == DigitPrefix(str)
    IN  IF k = 0 THEN NaN ELSE Num(DecimalValue(SubSeq(str, 1, k)))

\* parseInt on strings without radix prefix or leading blanks
parseInt(str) ==
    LET neg == startsWith(str, "-")
        rest == IF neg THEN Tail(str) ELSE str
        k == DigitPrefix(rest)
        n == DecimalValue(SubSeq(rest, 1, k))
    IN  IF k = 0 THEN NaN ELSE Num(IF neg THEN 0 - n ELSE n)

\* a || b on numbers: 0 and NaN are falsy
JsOr(a, b) == IF a = NaN \/ a = Num(0) THEN b ELSE a

(***************************************************************************)
(* getCurrentPrice, in cents.                                              *)
(***************************************************************************)
getCurrentPrice(symbol) ==
    CASE symbol = "SOXL" -> 2550
      [] symbol = "QQQ" -> 38025
      [] symbol = "VGT" -> 45075
      [] symbol = "ARKK" -> 4530
      [] symbol = "SOXX" -> 21080
      [] symbol = "VOO" -> 42015
      [] symbol = "VTI" -> 24560
      [] symbol = "VXUS" -> 6520
      [] symbol = "NVDA" -> 85040
      [] symbol = "AMD" -> 14580
      [] symbol = "TSM" -> 10525
      [] symbol = "AAPL" -> 17550
      [] symbol = "MSFT" -> 41530
      [] symbol = "GOOGL" -> 13580
      [] OTHER -> 10000

(***************************************************************************)
(* parseQuantity(input, currentPrice): type, value and share count.        *)
(* Math.floor(dollarAmount / currentPrice) is computed on cents.           *)
(***************************************************************************)
parseQuantity(input, currentPrice) ==
    IF endsWith(input, "%")
    THEN LET percentage == parseFloat(SubSeq(input, 1, Len(input) - 1))
         IN  [type |-> "percentage", value |-> percentage,
              shares |-> IF percentage = NaN THEN NaN
                         ELSE Num((buyingPowerCents * percentage[1])
                                     \div (100 * currentPrice))]
    ELSE IF startsWith(input, "$")
    THEN LET dollars == parseFloat(Tail(input))
         IN  [type |-> "dollars", value |-> dollars,
              shares |-> IF dollars = NaN THEN NaN
                         ELSE Num((dollars[1] * 100) \div currentPrice)]
    ELSE LET shares == parseFloat(input)
         IN  [type |-> "shares", value |-> shares, shares |-> shares]

\* quantityInfo.shares || quantityInfo.value
BuyQuantity(input, currentPrice) ==
    LET quantityInfo == parseQuantity(input, currentPrice)
    IN  JsOr(quantityInfo.shares, quantityInfo.value)

\* buy .TICKER QUANTITY ...: the quantity the prompt is built with
ComputeBuyQuantity ==
    /\ ~qDone
    /\ qDone' = TRUE
    /\ qResult' = BuyQuantity(qInput, getCurrentPrice(qSymbol))
    /\ UNCHANGED <<qInput, qSymbol>>
    /\ UNCHANGED qtyFrame

QtyChars == Digits \cup {"$", "%"}
QtyInputs == UNION {[1..n -> QtyChars] : n \in 1..MaxQtyLen}
QtySymbols == {"AAPL", "SOXL", "NVDA", "XYZ"}

InitQtyIdle ==
    /\ qInput = <<"1">>
    /\ qSymbol = "AAPL"
    /\ qDone = TRUE
    /\ qResult = Num(1)

InitQtyInputs ==
    /\ qInput \in QtyInputs
    /\ qSymbol \in QtySymbols
    /\ qDone = FALSE
    /\ qResult = NaN

(***************************************************************************)
(* The buy/sell wizard.  A command is the sequence of its words            *)
(* (command.split(' ')); a word is a string as above.                      *)
(***************************************************************************)
ClientIds == 1..MaxClients
NoClient == 0

\* the command as one string: its words joined by " "
RECURSIVE Join(_)
Join(parts) ==
    IF Len(parts) = 0 THEN <<>>
    ELSE IF Len(parts) = 1 THEN parts[1]
    ELSE parts[1] \o <<" ">> \o Join(Tail(parts))

\* toLowerCase / toUpperCase on the names the model types in
LowerName(a) ==
    CASE a = "Y" -> "y" [] a = "YES" -> "yes" [] a = "BUY" -> "buy" [] OTHER -> a
UpperName(a) ==
    CASE a = "soxl" -> "SOXL" [] a = "aapl" -> "AAPL" [] OTHER -> a
toLowerCase(str) == [i \in DOMAIN str |-> LowerName(str[i])]
toUpperCase(str) == [i \in DOMAIN str |-> UpperName(str[i])]

\* str.replace('$', ''): the first "$" removed
RECURSIVE RemoveFirstDollar(_)
RemoveFirstDollar(str) ==
    IF Len(str) = 0 THEN <<>>
    ELSE IF str[1] = "$" THEN Tail(str)
    ELSE <<str[1]>> \o RemoveFirstDollar(Tail(str))

\* the name a ticker string stands for; a ticker of several atoms is some
\* symbol without price or holdings
Symbol(str) == IF Len(str) = 1 THEN str[1] ELSE "?"

\* etfData: the parsed data/myetf.json.  TRUE: the entry has holdings.
\* "constructor" stands for the keys every object inherits, which
\* etfData[key] finds too and which have no holdings.
etfData == "myETF1" :> TRUE @@ "constructor" :> FALSE

hasEtf(str) == Len(str) = 1 /\ str[1] \in DOMAIN etfData

\* calculateETFDetails: "null" without entry, "throw" when etf.holdings is
\* undefined (etf.holdings.map), else the holdings
calculateETFDetails(etfName) ==
    IF etfName \notin DOMAIN etfData THEN "null"
    ELSE IF etfData[etfName] THEN "holdings" ELSE "throw"

\* getPortfolioHoldings(symbol).quantity, 0 for null
HeldQuantity(symbol) ==
    CASE symbol = "SOXL" -> 20
      [] symbol = "QQQ" -> 50
      [] symbol = "VOO" -> 25
      [] symbol = "VTI" -> 40
      [] OTHER -> 0

getPortfolioHoldings(symbol) == HeldQuantity(symbol) > 0

\* the sell quantity: P% of the holding, or the number typed
SellQuantity(arg, held) ==
    IF endsWith(arg, "%")
    THEN LET percentage == parseFloat(SubSeq(arg, 1, Len(arg) - 1))
         IN  IF percentage = NaN THEN NaN
             ELSE Num((held * percentage[1]) \div 100)
    ELSE parseFloat(arg)

\* a wizard state stored one step too far
StateStepAhead(type, step, ticker, etfName, quantity, isETF) ==
    Some([type |-> type, step |-> step + 1, ticker |-> ticker,
          etfName |-> etfName, quantity |-> quantity, isETF |-> isETF])

State(type, step, ticker, etfName, quantity, isETF) ==
    Some([type |-> type, step |-> step, ticker |-> ticker, etfName |-> etfName,
          quantity |-> quantity, isETF |-> isETF])

\* the reply of a command, by its kind and the values its text carries
Reply(kind, type, ticker, quantity, price) ==
    [kind |-> kind, type |-> type, ticker |-> ticker, quantity |-> quantity,
     price |-> price]
Plain(kind) == Reply(kind, "", "", NaN, NaN)
\* the (y/N) prompt; its price is in cents
Confirm(type, ticker, quantity, price) ==
    Reply("confirm", type, ticker, quantity, price)

\* a price in dollars, in cents
Cents(price) == IF price = NaN THEN NaN ELSE Num(100 * price[1])

\* clientStates.delete(clientId) that drops every entry
DeleteAllStates(states, c) == [x \in DOMAIN states |-> None]

\* clientStates.delete(clientId)
DeleteState(states, c) == [states EXCEPT ![c] = None]

\* clientStates.set(clientId, state)
SetState(states, c, state) == [states EXCEPT ![c] = state]

Result(states, reply) == [states |-> states, reply |-> reply, order |-> None]

\* an exception caught by processTerminalCommand: nothing was changed yet
Thrown == Result(clientStates, Plain("error"))

\* the ETF branch of a buy once an amount is given
BuyEtf(c, etfName) ==
    CASE calculateETFDetails(etfName) = "throw" -> Thrown
      [] calculateETFDetails(etfName) = "null" ->
            Result(clientStates, Plain("etfNotFound"))
      [] OTHER ->
            Result(DeleteState(clientStates, c), Confirm("buy", etfName, NaN, NaN))

processInteractiveBuy(parts, c) ==
    IF Len(parts) > 1 /\ startsWith(parts[2], ".")
    THEN LET ticker == Symbol(toUpperCase(Tail(parts[2])))
             currentPrice == getCurrentPrice(ticker)
         IN  IF Len(parts) < 3
             THEN Result(SetState(clientStates, c,
                                  State("buy", 2, ticker, "", NaN, FALSE)),
                         Plain("askQuantity"))
             ELSE IF Len(parts) < 4
             THEN Result(SetState(clientStates, c,
                                  State("buy", 3, ticker, "",
                                        BuyQuantity(parts[3], currentPrice), FALSE)),
                         Plain("askPrice"))
             ELSE Result(DeleteState(clientStates, c),
                         Confirm("buy", ticker, BuyQuantity(parts[3], currentPrice),
                                 Cents(parseFloat(parts[4]))))
    ELSE IF Len(parts) > 1 /\ hasEtf(parts[2])
    THEN LET etfName == parts[2][1]
             amount == IF Len(parts) < 3 THEN NaN
                       ELSE parseFloat(RemoveFirstDollar(parts[3]))
         IN  IF amount = NaN \/ amount = Num(0)
             THEN Result(SetState(clientStates, c,
                                  State("buy", 2, "", etfName, NaN, TRUE)),
                         Plain("askAmount"))
             ELSE BuyEtf(c, etfName)
    ELSE Result(SetState(clientStates, c, State("buy", 1, "", "", NaN, FALSE)),
                Plain("askTicker"))

processInteractiveSell(parts, c) ==
    IF Len(parts) > 1 /\ startsWith(parts[2], ".")
    THEN LET ticker == Symbol(toUpperCase(Tail(parts[2])))
             held == HeldQuantity(ticker)
         IN  IF ~getPortfolioHoldings(ticker)
             THEN Result(clientStates, Plain("noHoldings"))
             ELSE IF Len(parts) < 3
             THEN Result(SetState(clientStates, c,
                                  State("sell", 2, ticker, "", NaN, FALSE)),
                         Plain("askQuantity"))
             ELSE IF parts[3] = <<"all">>
             THEN Result(DeleteState(clientStates, c),
                         Confirm("sell", ticker, Num(held),
                                 IF Len(parts) < 4
                                 THEN Num(getCurrentPrice(ticker))
                                 ELSE Cents(parseFloat(parts[4]))))
             ELSE IF Len(parts) < 4
             THEN Result(SetState(clientStates, c,
                                  State("sell", 3, ticker, "",
                                        SellQuantity(parts[3], held), FALSE)),
                         Plain("askPrice"))
             ELSE Result(DeleteState(clientStates, c),
                         Confirm("sell", ticker, SellQuantity(parts[3], held),
                                 Cents(parseFloat(parts[4]))))
    ELSE IF Len(parts) > 1 /\ hasEtf(parts[2])
    THEN Result(DeleteState(clientStates, c), Confirm("sell", parts[2][1], NaN, NaN))
    ELSE Result(SetState(clientStates, c, State("sell", 1, "", "", NaN, FALSE)),
                Plain("askTicker"))

\* handleInteractiveResponse for a client whose state is `state`
InteractiveBuyResponse(input, c, state) ==
    CASE state.step = 1 ->
            IF startsWith(input, ".")
            THEN LET ticker == Symbol(toUpperCase(Tail(input)))
                 IN  IF ticker = "PARKPAR"
                     THEN Result(clientStates, Plain("unknownTicker"))
                     ELSE Result(SetState(clientStates, c,
                                          State("buy", 2, ticker, "", NaN, FALSE)),
                                 Plain("askQuantity"))
            ELSE IF hasEtf(input)
            THEN Result(SetState(clientStates, c,
                                 State("buy", 2, "", input[1], NaN, TRUE)),
                        Plain("askAmount"))
            ELSE Result(clientStates, Plain("unknownTicker"))
      [] state.step = 2 ->
            IF state.isETF
            THEN CASE calculateETFDetails(state.etfName) = "throw" -> Thrown
                   [] calculateETFDetails(state.etfName) = "null" ->
                         Result(DeleteState(clientStates, c), Plain("etfNotFound"))
                   [] OTHER ->
                         Result(DeleteState(clientStates, c),
                                Confirm("buy", state.etfName, NaN, NaN))
            ELSE Result(SetState(clientStates, c,
                                 Some([state EXCEPT
                                         !.step = 3,
                                         !.quantity =
                                            BuyQuantity(input,
                                                        getCurrentPrice(state.ticker))])),
                        Plain("askPrice"))
      [] state.step = 3 ->
            Result(DeleteState(clientStates, c),
                   Confirm("buy", state.ticker, state.quantity,
                           Cents(parseFloat(input))))
      [] OTHER -> Result(DeleteState(clientStates, c), Plain("cancelled"))

InteractiveSellResponse(input, c, state) ==
    CASE state.step = 1 ->
            IF startsWith(input, ".")
            THEN LET ticker == Symbol(toUpperCase(Tail(input)))
                 IN  IF ~getPortfolioHoldings(ticker)
                     THEN Result(clientStates, Plain("noHoldings"))
                     ELSE Result(SetState(clientStates, c,
                                          State("sell", 2, ticker, "", NaN, FALSE)),
                                 Plain("askQuantity"))
            ELSE IF hasEtf(input)
            THEN Result(DeleteState(clientStates, c),
                        Confirm("sell", input[1], NaN, NaN))
            ELSE Result(clientStates, Plain("unknownTicker"))
      [] state.step = 2 ->
            IF ~getPortfolioHoldings(state.ticker)
            THEN Result(DeleteState(clientStates, c), Plain("noHoldings"))
            ELSE LET held == HeldQuantity(state.ticker)
                     quantity == IF input = <<"all">> THEN Num(held)
                                 ELSE SellQuantity(input, held)
                 IN  Result(SetState(clientStates, c,
                                     Some([state EXCEPT !.step = 3,
                                                        !.quantity = quantity])),
                            Plain("askPrice"))
      [] state.step = 3 ->
            Result(DeleteState(clientStates, c),
                   Confirm("sell", state.ticker, state.quantity,
                           Cents(parseFloat(input))))
      [] OTHER -> Result(DeleteState(clientStates, c), Plain("cancelled"))

\* handleInteractiveResponse: a reply of kind "none" is the empty string
handleInteractiveResponse(input, c) ==
    IF clientStates[c] = None THEN Result(clientStates, Plain("none"))
    ELSE IF clientStates[c][1].type = "buy"
    THEN InteractiveBuyResponse(input, c, clientStates[c][1])
    ELSE IF clientStates[c][1].type = "sell"
    THEN InteractiveSellResponse(input, c, clientStates[c][1])
    ELSE Result(clientStates, Plain("none"))

\* handleConfirmation: it answers, and neither stores nor broadcasts
handleConfirmation(input) ==
    IF toLowerCase(input) \in {<<"y">>, <<"yes">>}
    THEN Result(clientStates, Plain("executed"))
    ELSE IF toLowerCase(input) \in {<<"n">>, <<"no">>}
    THEN Result(clientStates, Plain("cancelled"))
    ELSE Result(clientStates, Plain("none"))

\* the sell command of processTerminalCommand, reached without a client id
LegacySell(parts) ==
    IF Len(parts) < 2 THEN Result(clientStates, Plain("usage"))
    ELSE LET ticker == IF startsWith(parts[2], ".")
                       THEN Symbol(toUpperCase(Tail(parts[2])))
                       ELSE Symbol(toUpperCase(parts[2]))
         IN  IF Len(parts) < 3 THEN Result(clientStates, Plain("usage"))
             ELSE IF toLowerCase(parts[3]) = <<"all">>
             \* no position of demo-account-1 is ever stored
             THEN Result(clientStates, Plain("noHoldings"))
             ELSE LET quantity == parseInt(parts[3])
                  IN  IF quantity # NaN /\ quantity[1] <= 0
                      THEN Result(clientStates, Plain("usage"))
                      ELSE [states |-> clientStates,
                            reply |-> Plain("orderSent"),
                            order |-> Some(Order("demo-account-1", ticker,
                                                 "sell", quantity))]

\* processTerminalCommand(command, clientId): states, reply and order
TerminalResult(c, parts) ==
    IF parts = <<>> THEN Result(clientStates, Plain("none"))
    ELSE LET cmd == toLowerCase(parts[1])
             interactive == IF c = NoClient THEN Result(clientStates, Plain("none"))
                            ELSE handleInteractiveResponse(Join(parts), c)
         IN  IF interactive.reply.kind # "none" THEN interactive
             ELSE IF cmd = <<"buy">> /\ c # NoClient
             THEN processInteractiveBuy(parts, c)
             ELSE IF cmd = <<"sell">> /\ c # NoClient
             THEN processInteractiveSell(parts, c)
             ELSE IF c # NoClient /\ cmd \in {<<"y">>, <<"yes">>, <<"n">>, <<"no">>}
             THEN handleConfirmation(Join(parts))
             ELSE IF startsWith(cmd, ".") /\ Len(cmd) > 1
             THEN Result(clientStates, Plain("quote"))
             ELSE IF cmd = <<"buy">> THEN Result(clientStates, Plain("usage"))
             ELSE IF cmd = <<"sell">> THEN LegacySell(parts)
             ELSE Result(clientStates, Plain("other"))

\* a terminal_command message of client c (or POST /api/terminal): the
\* command is processed and a non-empty reply is sent back
ProcessTerminalCommand(c, parts) ==
    LET r == TerminalResult(c, parts)
    IN  /\ clientStates' = r.states
        /\ screen' = IF c # NoClient /\ r.reply.kind # "none"
                     THEN [screen EXCEPT ![c] = r.reply]
                     ELSE screen
        /\ IF r.order = None
           THEN UNCHANGED orders /\ noBroadcast
           ELSE /\ orders' = createOrder(orders, r.order[1])
                /\ broadcast(<<"order_update">>)
        /\ lastClient' = c
        /\ UNCHANGED wizFrame

\* the commands the model types in
Dot(name) == <<".", name>>
Tickers == {"AAPL", "SOXL", "soxl", "PARKPAR"}
QuantityWords == {<<"2">>, <<"$", "6", "0">>, <<"all">>}
PriceWords == {<<"7">>}
Keywords == {<<"buy">>, <<"sell">>}
DirectCommands ==
    {<<k>> : k \in Keywords}
       \cup {<<k, Dot(t)>> : k \in Keywords, t \in {"AAPL", "SOXL"}}
       \cup {<<k, Dot(t), q>> : k \in Keywords, t \in {"AAPL", "SOXL"},
                                q \in QuantityWords}
       \cup {<<k, Dot("SOXL"), <<"2">>, p>> : k \in Keywords, p \in PriceWords}
       \cup {<<k, <<e>>>> : k \in Keywords, e \in DOMAIN etfData}
       \cup {<<<<"buy">>, <<e>>, <<"$", "6", "0">>>> : e \in DOMAIN etfData}
WizardInputs ==
    {<<Dot(t)>> : t \in Tickers}
       \cup {<<<<e>>>> : e \in DOMAIN etfData}
       \cup {<<q>> : q \in QuantityWords \cup PriceWords}
OtherCommands ==
    {<<<<"y">>>>, <<<<"yes">>>>, <<<<"Y">>>>, <<<<"n">>>>, <<<<"help">>>>, <<>>}
Commands == DirectCommands \cup WizardInputs \cup OtherCommands

InitWiz ==
    /\ clientStates = [c \in ClientIds |-> None]
    /\ screen = [c \in ClientIds |-> Plain("none")]
    /\ lastClient = NoClient

(***************************************************************************)
(* AuthService and the session routes.  The users file is the variable     *)
(* users, by username; time is in minutes.                                 *)
(***************************************************************************)
Usernames == {"admin", "guest"}
LoginNames == Usernames \cup {"nobody"}
AccountIds == {"paper-account-1", "paper-account-2", "live-account-1",
               "paper-account-3"}

User(id, role, allowedAccounts) ==
    [id |-> id, role |-> role, allowedAccounts |-> allowedAccounts,
     loginAttempts |-> 0, lockedUntil |-> None, lastLogin |-> None]

\* userData.users.find(u => u.id === id): the usernames with that id
FindById(userId) == {u \in Usernames : users[u].id = userId}

\* user.lockedUntil && new Date() < new Date(user.lockedUntil), never true
NeverLocked(user) == FALSE

\* user.lockedUntil && new Date() < new Date(user.lockedUntil)
IsLocked(user) == user.lockedUntil # None /\ now < user.lockedUntil[1]

AuthResult(username, success, message, remaining) ==
    [username |-> username, success |-> success, message |-> message,
     remaining |-> remaining]

\* the user record after a wrong password
FailedLogin(user) ==
    IF user.loginAttempts + 1 >= maxLoginAttempts
    THEN [user EXCEPT !.lockedUntil = Some(now + lockoutDuration),
                      !.loginAttempts = 0]
    ELSE [user EXCEPT !.loginAttempts = user.loginAttempts + 1]

\* the user record after a login
SucceededLogin(user) ==
    [user EXCEPT !.loginAttempts = 0, !.lockedUntil = None,
                 !.lastLogin = Some(now)]

\* authenticateUser(username, password), its awaits taken in one step;
\* valid is the outcome of bcrypt.compare
authenticateUser(username, valid) ==
    IF username \notin Usernames
    THEN /\ authResult' = AuthResult(username, FALSE, "invalid", 0)
         /\ UNCHANGED users
    ELSE IF IsLocked(users[username])
    THEN /\ authResult' = AuthResult(username, FALSE, "locked", 0)
         /\ UNCHANGED users
    ELSE IF ~valid
    THEN LET user == FailedLogin(users[username])
             remainingAttempts == maxLoginAttempts - user.loginAttempts
         IN  /\ users' = [users EXCEPT ![username] = user]
             /\ authResult' =
                   IF remainingAttempts > 0
                   THEN AuthResult(username, FALSE, "wrong", remainingAttempts)
                   ELSE AuthResult(username, FALSE, "lockedOut", 0)
    ELSE /\ users' = [users EXCEPT ![username] = SucceededLogin(users[username])]
         /\ authResult' = AuthResult(username, TRUE, "success", 0)

\* the wrong passwords given in a row for a user since its last login,
\* counted up to one past maxLoginAttempts
CountWrong(username, valid) ==
    IF username \notin Usernames THEN wrongStreak
    ELSE IF valid
    THEN IF IsLocked(users[username]) THEN wrongStreak
         ELSE [wrongStreak EXCEPT ![username] = 0]
    ELSE IF wrongStreak[username] > maxLoginAttempts THEN wrongStreak
    ELSE [wrongStreak EXCEPT ![username] = wrongStreak[username] + 1]

\* POST /api/login
PostLogin(username, valid) ==
    /\ authenticateUser(username, valid)
    /\ wrongStreak' = CountWrong(username, valid)
    /\ session' = IF authResult'.success THEN Some(users'[username].id)
                  ELSE session
    /\ UNCHANGED <<now, accountsResponse, orders, broadcasts, wsSent>>
    /\ UNCHANGED <<authCalls, numAuthCalls, wrongCount>>
    /\ UNCHANGED authFrame

\* POST /api/logout: req.session.destroy
PostLogout ==
    /\ session # None
    /\ session' = None
    /\ UNCHANGED <<now, users, authResult, wrongStreak, accountsResponse,
                   orders, broadcasts, wsSent>>
    /\ UNCHANGED <<authCalls, numAuthCalls, wrongCount>>
    /\ UNCHANGED authFrame

\* time passes
ClockAdvance ==
    /\ now + TickMinutes <= MaxNow
    /\ now' = now + TickMinutes
    /\ UNCHANGED <<users, authResult, wrongStreak, session, accountsResponse,
                   orders, broadcasts, wsSent>>
    /\ UNCHANGED <<authCalls, numAuthCalls, wrongCount>>
    /\ UNCHANGED authFrame

(***************************************************************************)
(* authenticateUser with its awaits: a call reads the users file, compares *)
(* the password, and writes the file it read back with its one change.     *)
(***************************************************************************)
AuthCall(username, valid, pc, userData) ==
    [username |-> username, valid |-> valid, pc |-> pc, userData |-> userData]

RemoveCall(calls, call) == calls (-) SetToBag({call})

concFrame == <<now, wrongStreak, session, accountsResponse, orders, broadcasts,
               wsSent>>

\* authenticateUser is called: await this.loadUsers() is pending (userData is
\* set when the file is read)
AuthBegin(username, valid) ==
    /\ numAuthCalls < MaxAuthCalls
    /\ BagCardinality(authCalls) < MaxInFlight
    /\ numAuthCalls' = numAuthCalls + 1
    /\ authCalls' = authCalls (+) SetToBag({AuthCall(username, valid, "load", users)})
    /\ UNCHANGED <<users, authResult, wrongCount>>
    /\ UNCHANGED concFrame
    /\ UNCHANGED authFrame

\* loadUsers resolves: the lock is checked on the file as read, and the call
\* goes on to bcrypt.compare
AuthLoaded(call) ==
    /\ call.pc = "load"
    /\ IF IsLocked(users[call.username])
       THEN /\ authCalls' = RemoveCall(authCalls, call)
            /\ authResult' = AuthResult(call.username, FALSE, "locked", 0)
       ELSE /\ authCalls' = RemoveCall(authCalls, call)
                               (+) SetToBag({AuthCall(call.username, call.valid,
                                                      "compare", users)})
            /\ UNCHANGED authResult
    /\ UNCHANGED <<users, numAuthCalls, wrongCount>>
    /\ UNCHANGED concFrame
    /\ UNCHANGED authFrame

\* the record a call writes: the file it read with its user's record changed
Written(call) ==
    [call.userData EXCEPT ![call.username] =
        IF call.valid THEN SucceededLogin(call.userData[call.username])
        ELSE FailedLogin(call.userData[call.username])]

\* bcrypt.compare resolves, the record read is changed and saveUsers writes
\* the file; the call returns
AuthSaved(call) ==
    /\ call.pc = "compare"
    /\ users' = Written(call)
    /\ authCalls' = RemoveCall(authCalls, call)
    /\ authResult' =
          IF call.valid THEN AuthResult(call.username, TRUE, "success", 0)
          ELSE LET remainingAttempts ==
                      maxLoginAttempts - Written(call)[call.username].loginAttempts
               IN  IF remainingAttempts > 0
                   THEN AuthResult(call.username, FALSE, "wrong", remainingAttempts)
                   ELSE AuthResult(call.username, FALSE, "lockedOut", 0)
    /\ wrongCount' = [wrongCount EXCEPT ![call.username] =
                         IF call.valid THEN 0 ELSE wrongCount[call.username] + 1]
    /\ UNCHANGED numAuthCalls
    /\ UNCHANGED concFrame
    /\ UNCHANGED authFrame

\* hasAccountAccess(userId, accountId)
hasAccountAccess(userId, accountId) ==
    \E u \in FindById(userId) :
       \/ users[u].role = "admin"
       \/ "all" \in users[u].allowedAccounts
       \/ accountId \in users[u].allowedAccounts

\* getAllowedAccounts(userId) that answers ['all'] for every user
getAllowedAccountsAll(userId) == {"all"}

\* getAllowedAccounts(userId)
getAllowedAccounts(userId) ==
    IF FindById(userId) = {} THEN {}
    ELSE LET u == CHOOSE u \in FindById(userId) : TRUE
         IN  IF users[u].role = "admin" \/ "all" \in users[u].allowedAccounts
             THEN {"all"}
             ELSE users[u].allowedAccounts

\* MemStorage.initializeData: the owner of each account
accountOwner ==
    [a \in AccountIds |-> IF a = "paper-account-3" THEN "guest" ELSE "demo-user-1"]

\* MemStorage.getAccountsByUserId
getAccountsByUserId(userId) == {a \in AccountIds : accountOwner[a] = userId}

\* getUserById(userId)?.role
RoleOf(userId) ==
    IF FindById(userId) = {} THEN "undefined"
    ELSE users[CHOOSE u \in FindById(userId) : TRUE].role

\* GET /api/accounts, behind requireAuth
GetAccounts ==
    /\ session # None
    /\ LET userId == session[1]
           allowedAccounts == getAllowedAccounts(userId)
           allAccounts == getAccountsByUserId(IF RoleOf(userId) = "admin"
                                              THEN "demo-user-1" ELSE userId)
           filteredAccounts == IF "all" \in allowedAccounts THEN allAccounts
                               ELSE allAccounts \cap allowedAccounts
       IN  accountsResponse' =
              Some([userId |-> userId, accounts |-> filteredAccounts,
                    currentAccount |-> IF RoleOf(userId) = "guest"
                                       THEN "paper-account-3"
                                       ELSE "demo-account-1"])
    /\ UNCHANGED <<now, users, authResult, wrongStreak, session, orders,
                   broadcasts, wsSent>>
    /\ UNCHANGED <<authCalls, numAuthCalls, wrongCount>>
    /\ UNCHANGED authFrame

\* POST /api/orders: no requireAuth, the account is fixed
PostOrders(symbol, side, quantity) ==
    /\ BagCardinality(orders) < MaxOrders
    /\ orders' = createOrder(orders, Order("demo-account-1", symbol, side,
                                           Num(quantity)))
    /\ broadcast(<<"order_update">>)
    /\ UNCHANGED <<now, users, authResult, wrongStreak, session, accountsResponse>>
    /\ UNCHANGED <<authCalls, numAuthCalls, wrongCount>>
    /\ UNCHANGED authFrame

\* POST /api/terminal without a clientId, as the client's HTTP fallback
\* sends it
LegacyCommands ==
    {<<<<"sell">>, Dot("SOXL"), <<"2">>>>, <<<<"sell">>, <<"AAPL">>, <<"all">>>>,
     <<<<"buy">>, Dot("SOXL"), <<"2">>>>, <<<<"sell">>, Dot("SOXL"), <<"0">>>>}

PostTerminal(parts) ==
    /\ BagCardinality(orders) < MaxOrders
    /\ ProcessTerminalCommand(NoClient, parts)

\* users.json as README_DEPLOYMENT.md describes it
InitUsersDefault ==
    users = [u \in Usernames |->
                IF u = "admin" THEN User("admin-id", "admin", {"all"})
                ELSE User("guest", "guest", {"paper-account-3"})]

\* users.json with some ids and account lists
InitUsersAny ==
    \E guestId \in {"guest", "guest-id"},
       guestAccounts \in SUBSET {"all", "paper-account-1", "paper-account-3"},
       adminAccounts \in {{"all"}, {}} :
       users = [u \in Usernames |->
                   IF u = "admin" THEN User("admin-id", "admin", adminAccounts)
                   ELSE User(guestId, "guest", guestAccounts)]

InitAuth ==
    /\ now = 0
    /\ authResult = AuthResult("", FALSE, "none", 0)
    /\ wrongStreak = [u \in Usernames |-> 0]
    /\ session = None
    /\ accountsResponse = None
    /\ authCalls = EmptyBag
    /\ numAuthCalls = 0
    /\ wrongCount = [u \in Usernames |-> 0]

(***************************************************************************)
(* The Apply button of the auto-trading panel.                             *)
(***************************************************************************)
Alert(message) == [kind |-> "alert", message |-> message, interval |-> NaN]
ApiCallAuto(interval) == [kind |-> "POST /api/auto", message |-> "", interval |-> interval]

\* interval < 10 on a JavaScript number: false for NaN
LessThanTen(interval) == interval # NaN /\ interval[1] < 10

\* static/app.js: the btn-apply click handler
ClickApplyLegacy ==
    /\ ~aDone
    /\ aDone' = TRUE
    /\ LET interval == parseInt(aInterval)
       IN  aOutcome' = IF aStrategy = "" THEN Alert("selectStrategy")
                       ELSE IF LessThanTen(interval) THEN Alert("intervalWarning")
                       ELSE ApiCallAuto(interval)
    /\ UNCHANGED <<aInterval, aStrategy, aEnabled>>
    /\ UNCHANGED applyFrame

\* static/js/app.js: the btnApply click handler
ClickApply ==
    /\ ~aDone
    /\ aDone' = TRUE
    /\ LET interval_seconds == parseInt(aInterval)
       IN  aOutcome' = IF aEnabled /\ aStrategy = "" THEN Alert("selectStrategy")
                       ELSE IF LessThanTen(interval_seconds)
                       THEN Alert("intervalWarning")
                       ELSE ApiCallAuto(interval_seconds)
    /\ UNCHANGED <<aInterval, aStrategy, aEnabled>>
    /\ UNCHANGED applyFrame

IntervalChars == {"0", "1", "5", "9", "-", "a"}
IntervalInputs == UNION {[1..n -> IntervalChars] : n \in 0..MaxIntervalLen}

InitApplyIdle ==
    /\ aInterval = <<"6", "0">>
    /\ aStrategy = ""
    /\ aEnabled = FALSE
    /\ aDone = TRUE
    /\ aOutcome = Alert("none")

InitApplyInputs ==
    /\ aInterval \in IntervalInputs
    /\ aStrategy \in {"", "TMF Test"}
    /\ aEnabled \in BOOLEAN
    /\ aDone = FALSE
    /\ aOutcome = Alert("none")

(***************************************************************************)
(* The command history of the terminal page.                               *)
(***************************************************************************)
HistoryCommands == {"help", "orders"}

\* historyBuf.push(v); if (historyBuf.length > limit) historyBuf.shift()
PushHistory(buf, v, limit) ==
    IF Len(buf) + 1 > limit THEN Tail(Append(buf, v)) ELSE Append(buf, v)

\* main.js: sendCmd with a non-empty input
SendCmd(v) ==
    /\ hVariant = "main.js"
    /\ Len(hSent) < MaxSends
    /\ hSent' = Append(hSent, v)
    /\ historyBuf' = PushHistory(historyBuf, v, historyLimit)
    /\ histIdx' = Len(historyBuf')
    /\ UNCHANGED hVariant
    /\ UNCHANGED histFrame

\* static/main.js: sendCmd with an input that is not blank, the socket OPEN
SendCmdMain(v) ==
    /\ hVariant = "static/main.js"
    /\ Len(hSent) < MaxSends
    /\ hSent' = Append(hSent, v)
    /\ historyBuf' = IF Len(historyBuf) = 0 \/ historyBuf[Len(historyBuf)] # v
                     THEN PushHistory(historyBuf, v, historyLimitMain)
                     ELSE historyBuf
    /\ histIdx' = Len(historyBuf')
    /\ UNCHANGED hVariant
    /\ UNCHANGED histFrame

InitHistIdle ==
    /\ hVariant = "none"
    /\ historyBuf = <<>>
    /\ histIdx = 0 - 1
    /\ hSent = <<>>

InitHistPage ==
    /\ hVariant \in {"main.js", "static/main.js"}
    /\ historyBuf = <<>>
    /\ histIdx = 0 - 1
    /\ hSent = <<>>

(***************************************************************************)
(* The React client: WebSocketClient, its provider and the terminal form.  *)
(***************************************************************************)
\* this.ws?.readyState === WebSocket.OPEN
ClientIsConnected ==
    clientWs # None /\ clientSockets[clientWs[1]] = "OPEN"

\* connect(): a new WebSocket, kept in this.ws
connect ==
    /\ clientSockets' = Append(clientSockets, "CONNECTING")
    /\ clientWs' = Some(Len(clientSockets) + 1)

\* the provider's first effect: client.connect()
Mount ==
    /\ mounted = "no"
    /\ mounted' = "yes"
    /\ connect
    /\ UNCHANGED <<reconnectAttempts, reconnectTimers, providerWs, isConnected,
                   numSubmitted, sentOverWs, sentOverHttp>>
    /\ UNCHANGED reactFrame

\* onopen of socket i; the promise of the provider's connect() resolves when
\* its socket opens
SocketOpens(i) ==
    /\ clientSockets[i] = "CONNECTING"
    /\ clientSockets' = [clientSockets EXCEPT ![i] = "OPEN"]
    /\ reconnectAttempts' = 0
    /\ IF i = 1 /\ mounted = "yes"
       THEN isConnected' = TRUE /\ providerWs' = TRUE
       ELSE UNCHANGED <<isConnected, providerWs>>
    /\ UNCHANGED <<clientWs, reconnectTimers, mounted, numSubmitted, sentOverWs,
                   sentOverHttp>>
    /\ UNCHANGED reactFrame

\* attemptReconnect
attemptReconnect ==
    IF reconnectAttempts < maxReconnectAttempts
    THEN /\ reconnectAttempts' = reconnectAttempts + 1
         /\ reconnectTimers' = reconnectTimers + 1
    ELSE UNCHANGED <<reconnectAttempts, reconnectTimers>>

\* onclose of socket i: the connection failed, was lost, or was closed
SocketCloses(i) ==
    /\ clientSockets[i] # "CLOSED"
    /\ clientSockets' = [clientSockets EXCEPT ![i] = "CLOSED"]
    /\ attemptReconnect
    /\ UNCHANGED <<clientWs, mounted, providerWs, isConnected, numSubmitted,
                   sentOverWs, sentOverHttp>>
    /\ UNCHANGED reactFrame

\* the timer of attemptReconnect fires: this.connect()
ReconnectTimerFires ==
    /\ reconnectTimers > 0
    /\ Len(clientSockets) < MaxClientSockets
    /\ reconnectTimers' = reconnectTimers - 1
    /\ connect
    /\ UNCHANGED <<reconnectAttempts, mounted, providerWs, isConnected,
                   numSubmitted, sentOverWs, sentOverHttp>>
    /\ UNCHANGED reactFrame

\* disconnect()
disconnect ==
    IF clientWs # None
    THEN /\ clientSockets' =
               [clientSockets EXCEPT ![clientWs[1]] =
                   IF @ = "CLOSED" THEN "CLOSED" ELSE "CLOSING"]
         /\ clientWs' = None
    ELSE UNCHANGED <<clientSockets, clientWs>>

\* the cleanup of the provider's effects: client.disconnect(), clearInterval
Unmount ==
    /\ mounted = "yes"
    /\ mounted' = "unmounted"
    /\ disconnect
    /\ UNCHANGED <<reconnectAttempts, reconnectTimers, providerWs, isConnected,
                   numSubmitted, sentOverWs, sentOverHttp>>
    /\ UNCHANGED reactFrame

\* the provider's 1-second interval: setIsConnected(ws.isConnected)
Poll ==
    /\ mounted = "yes"
    /\ providerWs
    /\ isConnected' = ClientIsConnected
    /\ UNCHANGED <<clientSockets, clientWs, reconnectAttempts, reconnectTimers,
                   mounted, providerWs, numSubmitted, sentOverWs, sentOverHttp>>
    /\ UNCHANGED reactFrame

\* handleSubmit with a command that is not blank
HandleSubmit ==
    /\ mounted = "yes"
    /\ numSubmitted < MaxSubmits
    /\ numSubmitted' = numSubmitted + 1
    /\ IF isConnected
       THEN /\ sentOverWs' = IF providerWs /\ ClientIsConnected
                             THEN sentOverWs + 1 ELSE sentOverWs
            /\ UNCHANGED sentOverHttp
       ELSE /\ sentOverHttp' = sentOverHttp + 1
            /\ UNCHANGED sentOverWs
    /\ UNCHANGED <<clientSockets, clientWs, reconnectAttempts, reconnectTimers,
                   mounted, providerWs, isConnected>>
    /\ UNCHANGED reactFrame

InitReact ==
    /\ clientSockets = <<>>
    /\ clientWs = None
    /\ reconnectAttempts = 0
    /\ reconnectTimers = 0
    /\ mounted = "no"
    /\ providerWs = FALSE
    /\ isConnected = FALSE
    /\ numSubmitted = 0
    /\ sentOverWs = 0
    /\ sentOverHttp = 0

\* the pages with nothing to handle
InitPages ==
    /\ InitApplyIdle
    /\ InitHistIdle
    /\ InitReact

InitWs ==
    /\ wsClients = <<>>
    /\ readyState = <<>>
    /\ wsClientId = <<>>
    /\ wsSent = <<>>
    /\ clockMs = 0
    /\ numSockets = 0

InitTmf ==
    /\ strategyStatus = None
    /\ activeTimeouts = None
    /\ pendingTimers = {}
    /\ currentRound = [r \in Runs |-> 0]
    /\ startAwait = {}
    /\ numStarts = 0
    /\ numStops = 0
    /\ stopHandled = FALSE

InitServer ==
    /\ InitTmf
    /\ InitWs
    /\ orders = EmptyBag
    /\ broadcasts = EmptyBag

Init ==
    /\ InitServer
    /\ InitQtyIdle
    /\ InitWiz
    /\ InitAuth
    /\ InitUsersDefault
    /\ InitPages

NextTmf ==
    \/ StartRequest
    \/ \E r \in Runs : StartResume(r)
    \/ \E h \in pendingTimers : SellTimeoutFires(h)
    \/ \E h \in pendingTimers : NextRoundTimeoutFires(h)
    \/ StopRequest

NextWs ==
    \/ Tick
    \/ Connect
    \/ \E ws \in 1..numSockets : BeginClose(ws)
    \/ \E ws \in 1..numSockets : CloseEvent(ws)
    \/ MarketUpdate

SpecWs == Init /\ [][NextWs]_vars

NextQty == ComputeBuyQuantity

InitQty ==
    /\ InitServer
    /\ InitQtyInputs
    /\ InitWiz
    /\ InitAuth
    /\ InitUsersDefault
    /\ InitPages

SpecQty == InitQty /\ [][NextQty]_vars

NextWiz ==
    \/ \E c \in ClientIds, parts \in Commands : ProcessTerminalCommand(c, parts)

SpecWiz == Init /\ [][NextWiz]_vars

NextAuth ==
    \/ \E username \in LoginNames, valid \in BOOLEAN : PostLogin(username, valid)
    \/ PostLogout
    \/ ClockAdvance

SpecAuth == Init /\ [][NextAuth]_vars

NextAcc ==
    \/ \E username \in Usernames : PostLogin(username, TRUE)
    \/ PostLogout
    \/ GetAccounts
    \/ \E symbol \in {"AAPL"}, side \in {"buy", "sell"} : PostOrders(symbol, side, 1)
    \/ \E parts \in LegacyCommands : PostTerminal(parts)

InitAcc ==
    /\ InitServer
    /\ InitQtyIdle
    /\ InitWiz
    /\ InitAuth
    /\ InitUsersAny
    /\ InitPages

SpecAcc == InitAcc /\ [][NextAcc]_vars

InitApply ==
    /\ InitServer
    /\ InitQtyIdle
    /\ InitWiz
    /\ InitAuth
    /\ InitUsersDefault
    /\ InitApplyInputs
    /\ InitHistIdle
    /\ InitReact

NextApply ==
    \/ ClickApplyLegacy
    \/ ClickApply

SpecApply == InitApply /\ [][NextApply]_vars

InitHist ==
    /\ InitServer
    /\ InitQtyIdle
    /\ InitWiz
    /\ InitAuth
    /\ InitUsersDefault
    /\ InitApplyIdle
    /\ InitHistPage
    /\ InitReact

NextHist ==
    \/ \E v \in HistoryCommands : SendCmd(v)
    \/ \E v \in HistoryCommands : SendCmdMain(v)

SpecHist == InitHist /\ [][NextHist]_vars

NextAuthConc ==
    \/ \E username \in Usernames, valid \in BOOLEAN : AuthBegin(username, valid)
    \/ \E call \in BagToSet(authCalls) : AuthLoaded(call)
    \/ \E call \in BagToSet(authCalls) : AuthSaved(call)

SpecAuthConc == Init /\ [][NextAuthConc]_vars

NextReact ==
    \/ Mount
    \/ \E i \in DOMAIN clientSockets : SocketOpens(i)
    \/ \E i \in DOMAIN clientSockets : SocketCloses(i)
    \/ ReconnectTimerFires
    \/ Unmount
    \/ Poll
    \/ HandleSubmit

SpecReact == Init /\ [][NextReact]_vars

SpecTmf == Init /\ [][NextTmf]_vars

\* every handle setTimeout can return in a TMF Test run
TimerHandles ==
    {Handle(r, kind, round) :
        r \in Runs, kind \in {"sell", "next"}, round \in 1..maxRounds}

\* the event loop: a pending await resumes and every scheduled timer that is
\* not cleared fires; requests arrive or not
SpecTmfFair ==
    /\ Init
    /\ [][NextTmf]_vars
    /\ \A r \in Runs : WF_vars(StartResume(r))
    /\ \A h \in TimerHandles : WF_vars(SellTimeoutFires(h))
    /\ \A h \in TimerHandles : WF_vars(NextRoundTimeoutFires(h))

(***************************************************************************)
(* C1: once POST /api/strategy/stop has been handled, no TMF order is      *)
(* created and the status does not return to isRunning = true until a new  *)
(* start request arrives.                                                  *)
(***************************************************************************)
C1_QuietAfterStop ==
    [][(stopHandled /\ numStarts' = numStarts)
          => (orders' = orders /\ ~IsRunning')]_vars

(***************************************************************************)
(* C4: for one start that is neither stopped nor restarted, the number of  *)
(* TMF buy orders minus the number of TMF sell orders is 0 or 1 at every   *)
(* moment, and there are never more than 5 buys and 5 sells.               *)
(***************************************************************************)
SingleRun == numStarts = 1 /\ numStops = 0

C4_Alternation ==
    SingleRun =>
        /\ TmfCount("buy") - TmfCount("sell") \in {0, 1}
        /\ TmfCount("buy") <= maxRounds
        /\ TmfCount("sell") <= maxRounds

C4_Witness ==
    SingleRun /\ TmfCount("buy") = maxRounds /\ TmfCount("sell") = maxRounds

(***************************************************************************)
(* C7: every broadcast message is sent to every connected client whose     *)
(* socket is OPEN and on no socket that is not OPEN.                       *)
(***************************************************************************)
C7_FanOut ==
    [][\A ws \in 1..numSockets :
          wsSent'[ws] = wsSent[ws]
             + (IF readyState[ws] = "OPEN"
                THEN BagCardinality(broadcasts') - BagCardinality(broadcasts)
                ELSE 0)]_vars

(***************************************************************************)
(* C10: for a buy quantity `$D` the share count n satisfies n * price <= D,*)
(* for `P%` it satisfies n * price <= P percent of the buying power, and   *)
(* for a plain number N it is exactly N.                                   *)
(***************************************************************************)
AllDigits(str) == Len(str) > 0 /\ \A i \in 1..Len(str) : str[i] \in Digits

C10_QuantityWithinBudget ==
    qDone =>
        LET price == getCurrentPrice(qSymbol)
        IN  /\ (startsWith(qInput, "$") /\ AllDigits(Tail(qInput)))
                 => /\ qResult # NaN
                    /\ qResult[1] * price <= parseFloat(Tail(qInput))[1] * 100
            /\ (endsWith(qInput, "%")
                   /\ AllDigits(SubSeq(qInput, 1, Len(qInput) - 1)))
                 => /\ qResult # NaN
                    /\ qResult[1] * price * 100
                          <= parseFloat(qInput)[1] * buyingPowerCents
            /\ AllDigits(qInput) => qResult = parseFloat(qInput)

\* C2: when a client whose terminal shows the confirmation prompt of a buy
\* answers y or yes, an order with the ticker and quantity of the prompt is in
\* the order store after the answer and an order_update message is broadcast.
C2_ConfirmCreatesOrder ==
    [][\A c \in ClientIds, parts \in {<<<<"y">>>>, <<<<"yes">>>>} :
          ( /\ screen[c].kind = "confirm"
            /\ screen[c].type = "buy"
            /\ ProcessTerminalCommand(c, parts) )
          => /\ \E o \in BagToSet(orders') :
                  /\ o.side = "buy"
                  /\ o.symbol = screen[c].ticker
                  /\ o.quantity = screen[c].quantity
             /\ CopiesIn("order_update", broadcasts')
                  > CopiesIn("order_update", broadcasts)]_vars

\* C5: a command of one client leaves every other client's wizard state as
\* it was.
C5_StatePerClient ==
    [][\A b \in ClientIds :
          b # lastClient' => clientStates'[b] = clientStates[b]]_vars

\* client c's command has changed or removed its wizard state while another
\* client is in the middle of a wizard
C5_Witness ==
    \E c \in ClientIds, b \in ClientIds :
       /\ b # c
       /\ clientStates[b] # None
       /\ clientStates[b][1].step = 2
       /\ lastClient = c
       /\ clientStates[c] = None
       /\ screen[c].kind = "confirm"

\* C6: every stored wizard state is a buy or a sell at step 1, 2 or 3, and a
\* response handled for a client in a wizard leaves the step as it is, raises
\* it by one, or removes the state.
C6_WizardSteps ==
    /\ [](\A c \in ClientIds :
            clientStates[c] # None
            => /\ clientStates[c][1].type \in {"buy", "sell"}
               /\ clientStates[c][1].step \in 1..3)
    /\ [][\A c \in ClientIds :
            clientStates[c] # None
            => \/ clientStates'[c] = None
               \/ clientStates'[c][1].step \in
                     {clientStates[c][1].step, clientStates[c][1].step + 1}]_vars

\* a client has answered its way to step 3 of a sell
C6_Witness ==
    \E c \in ClientIds :
       /\ clientStates[c] # None
       /\ clientStates[c][1].type = "sell"
       /\ clientStates[c][1].step = 3
       /\ screen[c].kind = "askPrice"

\* C3: the fifth wrong password in a row since a login locks the user for lockoutDuration
\* minutes from that call, and while the time is before lockedUntil every
\* authenticateUser call for the user fails, with the right password too, and
\* leaves the user's record as it was.
C3_Lockout ==
    [][\A username \in Usernames :
          /\ ( /\ wrongStreak[username] = maxLoginAttempts - 1
               /\ wrongStreak'[username] = maxLoginAttempts )
             => users'[username].lockedUntil = Some(now + lockoutDuration)
          /\ \A valid \in BOOLEAN :
                ( /\ users[username].lockedUntil # None
                  /\ now < users[username].lockedUntil[1]
                  /\ PostLogin(username, valid) )
                => /\ ~authResult'.success
                   /\ users'[username] = users[username]]_vars

\* a user locked by five wrong passwords has been turned away some minutes
\* into the lock
C3_Witness ==
    \E username \in Usernames :
       /\ wrongStreak[username] >= maxLoginAttempts
       /\ users[username].lockedUntil # None
       /\ now < users[username].lockedUntil[1]
       /\ now + lockoutDuration > users[username].lockedUntil[1]
       /\ authResult = AuthResult(username, FALSE, "locked", 0)

\* C8: an order stored while the session is that of a guest whose
\* allowedAccounts is only paper-account-3 is on an account the guest may
\* access.
C8_GuestOrderAccount ==
    [][\A o \in BagToSet(orders') :
          ( /\ session # None
            /\ \E u \in FindById(session[1]) :
                  /\ users[u].role = "guest"
                  /\ users[u].allowedAccounts = {"paper-account-3"}
            /\ CopiesIn(o, orders') > CopiesIn(o, orders) )
          => hasAccountAccess(session[1], o.accountId)]_vars

\* C9: every account in the answer of GET /api/accounts is one its user may
\* access.
C9_AccountsAccessible ==
    accountsResponse # None
    => \A a \in accountsResponse[1].accounts :
          hasAccountAccess(accountsResponse[1].userId, a)

\* a guest allowed paper-account-3 only has been sent its list of accounts
C9_Witness ==
    /\ accountsResponse # None
    /\ accountsResponse[1].accounts = {"paper-account-3"}
    /\ \E u \in FindById(accountsResponse[1].userId) :
          /\ users[u].role = "guest"
          /\ users[u].allowedAccounts = {"paper-account-3"}

\* C11: a click on Apply never sends POST /api/auto with an interval that is
\* not a number or is below 10.
C11_IntervalAtLeastTen ==
    (aDone /\ aOutcome.kind = "POST /api/auto")
    => (aOutcome.interval # NaN /\ aOutcome.interval[1] >= 10)

\* C12: the history holds at most 10 commands, and they are the commands
\* sent last, in the order they were sent.
C12_HistoryOfTen ==
    /\ Len(historyBuf) <= 10
    /\ historyBuf = SubSeq(hSent, Len(hSent) - Len(historyBuf) + 1, Len(hSent))
    /\ Len(historyBuf) = IF Len(hSent) < 10 THEN Len(hSent) ELSE 10

\* C13: a wrong password given for a user that is not locked is answered with
\* the lock-out message when it is the fifth in a row, and before that with
\* the attempts left, 5 minus the wrong passwords given in a row so far.
C13_FailureMessages ==
    [][\A username \in Usernames :
          ( /\ ~( /\ users[username].lockedUntil # None
                  /\ now < users[username].lockedUntil[1] )
            /\ wrongStreak'[username] <= maxLoginAttempts
            /\ PostLogin(username, FALSE) )
          => IF wrongStreak'[username] = maxLoginAttempts
             THEN authResult'.message = "lockedOut"
             ELSE /\ authResult'.message = "wrong"
                  /\ authResult'.remaining
                        = maxLoginAttempts - wrongStreak'[username]]_vars

\* C14: once no call is in flight, a user that was answered "wrong password"
\* five times or more since its last login is locked.
C14_NoAttemptLost ==
    \A username \in Usernames :
       (authCalls = EmptyBag /\ wrongCount[username] >= maxLoginAttempts)
       => /\ users[username].lockedUntil # None
          /\ now < users[username].lockedUntil[1]

\* C15: once disconnect() has been called (the application calls connect()
\* only when the provider mounts), the client creates no WebSocket.
C15_NoSocketAfterDisconnect ==
    [][mounted = "unmounted" => Len(clientSockets') = Len(clientSockets)]_vars

\* C16: every command submitted has been sent once, on the socket or by
\* POST /api/terminal.
C16_DeliveredOnce ==
    sentOverWs + sentOverHttp = numSubmitted


(***************************************************************************)
(* C17: while no stop request has been made, at most one TMF round is in   *)
(* progress, whatever the start requests: a TMF buy order is created only  *)
(* when every earlier TMF buy order has been followed by its sell order.   *)
(***************************************************************************)
C17_OneRoundAtATime ==
    [][(numStops' = 0 /\ TmfCount("buy")' > TmfCount("buy"))
          => TmfCount("buy") = TmfCount("sell")]_vars


(***************************************************************************)
(* C18: every TMF Test run that was started finishes unless a stop request *)
(* is made: the run has done its 5 rounds, the status is isRunning = false *)
(* with completedRounds = totalRounds = 5, strategy_completed has been     *)
(* broadcast and no timer of the run is pending.                           *)
(***************************************************************************)
C18_RunFinishes ==
    \A r \in Runs :
        (r \in 1..numStarts /\ numStops = 0)
            ~> \/ numStops > 0
               \/ /\ currentRound[r] = maxRounds
                  /\ strategyStatus = Status(FALSE, maxRounds)
                  /\ CopiesIn("strategy_completed", broadcasts) >= 1
                  /\ {h \in pendingTimers : h.run = r} = {}

====
